---- MODULE Spec2Model ----
(***************************************************************************)
(* Account access control of the booking backend: the /api/auth router     *)
(* (register, verify-email, login, verify-mfa, forgot-password,            *)
(* reset-password, logout), the authenticateJWT middleware and the User    *)
(* schema.  Every handler is one action; the User collection is the only   *)
(* shared state.  Times are JavaScript Date values (milliseconds).         *)
(***************************************************************************)
EXTENDS Integers, Sequences, FiniteSets, TLC

VARIABLES users, now, ticks, held, verifyMail, env, resp, calls

vars == <<users, now, ticks, held, verifyMail, env, resp, calls>>

(* ------------------------------------------------------------------ *)
(* Bounds of the model                                                 *)
(* ------------------------------------------------------------------ *)

\* how many times the clock is advanced in one behaviour
MaxTicks == 1

\* how many requests are in flight at the same time
MaxCalls == 2

(* ------------------------------------------------------------------ *)
(* Program constants                                                   *)
(* ------------------------------------------------------------------ *)

\* failedLoginAttempts >= 3 locks
MAX_FAILED == 3

\* 5 * 60 * 1000
TEMP_LOCK_MS == 300000

\* 15 * 60 * 1000
RESET_TOKEN_MS == 900000

\* setHours(getHours() + 72), in milliseconds
MFA_WINDOW_MS == 259200000

\* expiresIn: '1h', in seconds
JWT_EXPIRES_S == 3600

\* Date values are milliseconds, JWT claims are seconds
MS_PER_S == 1000

\* Math.ceil(ms / 1000 / 60)
MS_PER_MIN == 60000

(* ------------------------------------------------------------------ *)
(* Inputs                                                              *)
(* ------------------------------------------------------------------ *)

\* an optional value: null/undefined is <<>>, a value x is <<x>>
None == <<>>

Some(x) == <<x>>

\* the emails of the requests; an email matches no account until it is registered
Emails == {"a@x.com"}

Passwords == {"pw", "bad"}

\* the password a client registers with and the one it resets to
GoodPasswords == {"pw"}

\* Math.floor(100000 + Math.random() * 900000).toString()
Codes == {"111111", "222222"}

DefaultCode == "111111"

\* crypto.randomBytes(32).toString('hex')
ResetTokens == {"r1"}

\* the reset tokens a client submits
SubmittedResetTokens == ResetTokens \cup {"r0"}

\* req.headers['user-agent'], "" when the header is missing
UserAgents == {"Mozilla"}

(* ------------------------------------------------------------------ *)
(* bcrypt and jsonwebtoken                                             *)
(* ------------------------------------------------------------------ *)

\* bcrypt.hash(password, 10)
Hash(password) == [bcrypt |-> password]

\* bcrypt.compare(password, hash)
Compare(password, hash) == hash.bcrypt = password

\* jwt.sign(payload, JWT_SECRET, { expiresIn: '1h' }) at time t
JwtSign(userId, role, t) ==
  [userId |-> userId, role |-> role, iat |-> t \div MS_PER_S,
   exp |-> (t \div MS_PER_S) + JWT_EXPIRES_S, sig |-> "JWT_SECRET"]

\* a token not signed with JWT_SECRET
ForgedToken ==
  [userId |-> "a@x.com", role |-> "admin", iat |-> 0,
   exp |-> JWT_EXPIRES_S, sig |-> "other"]

\* jwt.verify(token, JWT_SECRET): signature and exp
JwtVerify(token, t) ==
  /\ token.sig = "JWT_SECRET"
  /\ (t \div MS_PER_S) < token.exp

(* ------------------------------------------------------------------ *)
(* User schema                                                         *)
(* ------------------------------------------------------------------ *)

NewUserAlwaysUser(email, password, role, isVerified) ==
  [email |-> email,
   password |-> Hash(password),
   role |-> "user",
   isVerified |-> isVerified,
   mfaCode |-> None,
   mfaExpiry |-> None,
   lastMfaVerifiedAt |-> None,
   resetToken |-> None,
   resetTokenExpiry |-> None,
   failedLoginAttempts |-> 0,
   temporaryLockUntil |-> None,
   permanentlyLocked |-> FALSE,
   lockoutStage |-> 0,
   activeSessionToken |-> None,
   activeDevice |-> None,
   sessionCreatedAt |-> None]

\* new User({...}) with the schema defaults
NewUser(email, password, role, isVerified) ==
  [email |-> email,
   password |-> Hash(password),
   role |-> role,
   isVerified |-> isVerified,
   mfaCode |-> None,
   mfaExpiry |-> None,
   lastMfaVerifiedAt |-> None,
   resetToken |-> None,
   resetTokenExpiry |-> None,
   failedLoginAttempts |-> 0,
   temporaryLockUntil |-> None,
   permanentlyLocked |-> FALSE,
   lockoutStage |-> 0,
   activeSessionToken |-> None,
   activeDevice |-> None,
   sessionCreatedAt |-> None]

\* User.findOne({ email }) / User.findById(id): the _id is modelled by the email
Exists(email) == email \in DOMAIN users

(* ------------------------------------------------------------------ *)
(* Responses                                                           *)
(* ------------------------------------------------------------------ *)

\* the response of a handler, with the request it answers
Response(op, email, outcome) ==
  [op |-> op, email |-> email, outcome |-> outcome,
   password |-> None, code |-> None, token |-> None, presented |-> None,
   remainingAttempts |-> None, remainingMinutes |-> None, lockUntil |-> None]

NoResponse == Response("none", "", "none")

(* ------------------------------------------------------------------ *)
(* POST /login                                                         *)
(* ------------------------------------------------------------------ *)

\* Math.ceil((temporaryLockUntil - new Date()) / 1000 / 60)
CeilMinutes(ms) == (ms + MS_PER_MIN - 1) \div MS_PER_MIN

IsPermanentlyLockedAtStage3(u) == u.permanentlyLocked /\ u.lockoutStage > 2

\* the permanent lock check
IsPermanentlyLocked(u) == u.permanentlyLocked

IsTemporarilyLockedInverted(u, t) ==
  /\ u.temporaryLockUntil # None
  /\ t > u.temporaryLockUntil[1]

\* the temporary lock check: temporaryLockUntil && new Date() < temporaryLockUntil
IsTemporarilyLocked(u, t) ==
  /\ u.temporaryLockUntil # None
  /\ t < u.temporaryLockUntil[1]

SecondChanceKeepingLock(u, t) ==
  IF /\ u.temporaryLockUntil # None
     /\ t >= u.temporaryLockUntil[1]
     /\ u.lockoutStage = 1
  THEN [u EXCEPT !.failedLoginAttempts = 0]
  ELSE u

SecondChanceAfterExpiry(u, t) ==
  IF /\ u.temporaryLockUntil # None
     /\ t > u.temporaryLockUntil[1]
     /\ u.lockoutStage = 1
  THEN [u EXCEPT !.failedLoginAttempts = 0, !.temporaryLockUntil = None]
  ELSE u

SecondChanceKeepingCount(u, t) ==
  IF /\ u.temporaryLockUntil # None
     /\ t >= u.temporaryLockUntil[1]
     /\ u.lockoutStage = 1
  THEN [u EXCEPT !.temporaryLockUntil = None]
  ELSE u

\* the temporary lock expired after the first lockout: reset for the second chance (saved)
SecondChance(u, t) ==
  IF /\ u.temporaryLockUntil # None
     /\ t >= u.temporaryLockUntil[1]
     /\ u.lockoutStage = 1
  THEN [u EXCEPT !.failedLoginAttempts = 0, !.temporaryLockUntil = None]
  ELSE u

ReachedLimitLate(n) == n > MAX_FAILED

\* failedLoginAttempts >= 3
ReachedLimit(n) == n >= MAX_FAILED

WrongPasswordKeepingStage(u, t) ==
  LET n == u.failedLoginAttempts + 1
      counted == [u EXCEPT !.failedLoginAttempts = n]
  IN  IF u.lockoutStage = 0 /\ ReachedLimit(n)
      THEN [user |-> [counted EXCEPT !.temporaryLockUntil = Some(t + TEMP_LOCK_MS),
                                     !.lockoutStage = 1],
            outcome |-> "RejectedTemporaryLock",
            remainingAttempts |-> None,
            remainingMinutes |-> Some(5),
            lockUntil |-> Some(t + TEMP_LOCK_MS)]
      ELSE IF u.lockoutStage = 1 /\ ReachedLimit(n)
      THEN [user |-> [counted EXCEPT !.permanentlyLocked = TRUE],
            outcome |-> "RejectedPermanentLock",
            remainingAttempts |-> None,
            remainingMinutes |-> None,
            lockUntil |-> None]
      ELSE [user |-> counted,
            outcome |-> "InvalidCredentials",
            remainingAttempts |-> Some(IF 3 - n > 0 THEN 3 - n ELSE 0),
            remainingMinutes |-> None,
            lockUntil |-> None]

\* the wrong-password branch: the record saved and the response fields
WrongPassword(u, t) ==
  LET n == u.failedLoginAttempts + 1
      counted == [u EXCEPT !.failedLoginAttempts = n]
  IN  IF u.lockoutStage = 0 /\ ReachedLimit(n)
      THEN [user |-> [counted EXCEPT !.temporaryLockUntil = Some(t + TEMP_LOCK_MS),
                                     !.lockoutStage = 1],
            outcome |-> "RejectedTemporaryLock",
            remainingAttempts |-> None,
            remainingMinutes |-> Some(5),
            lockUntil |-> Some(t + TEMP_LOCK_MS)]
      ELSE IF u.lockoutStage = 1 /\ ReachedLimit(n)
      THEN [user |-> [counted EXCEPT !.permanentlyLocked = TRUE,
                                     !.lockoutStage = 2],
            outcome |-> "RejectedPermanentLock",
            remainingAttempts |-> None,
            remainingMinutes |-> None,
            lockUntil |-> None]
      ELSE [user |-> counted,
            outcome |-> "InvalidCredentials",
            remainingAttempts |-> Some(IF 3 - n > 0 THEN 3 - n ELSE 0),
            remainingMinutes |-> None,
            lockUntil |-> None]

\* successful password: reset lockout fields (on the document, saved by a later save)
ResetLockout(u) ==
  [u EXCEPT !.failedLoginAttempts = 0,
            !.temporaryLockUntil = None,
            !.permanentlyLocked = FALSE,
            !.lockoutStage = 0]

MfaRequiredOnlyFirstTime(u, t) == u.lastMfaVerifiedAt = None

MfaRequiredAtBoundary(u, t) ==
  \/ u.lastMfaVerifiedAt = None
  \/ t >= u.lastMfaVerifiedAt[1] + MFA_WINDOW_MS

\* require MFA if no previous verification or expired: now > lastMfaVerifiedAt + 72h
MfaRequired(u, t) ==
  \/ u.lastMfaVerifiedAt = None
  \/ t > u.lastMfaVerifiedAt[1] + MFA_WINDOW_MS

HasActiveSessionNever(u) == FALSE

\* enforce a single active session per account: if (activeSessionToken)
HasActiveSession(u) == u.activeSessionToken # None

\* req.headers['user-agent'] || 'Unknown Device'
DeviceOf(userAgent) == IF userAgent = "" THEN "Unknown Device" ELSE userAgent

\* store the token as the active session
SetSession(u, token, userAgent, t) ==
  [u EXCEPT !.activeSessionToken = Some(token),
            !.activeDevice = Some(DeviceOf(userAgent)),
            !.sessionCreatedAt = Some(t)]

LoginOnWithoutVerification(u, password, userAgent, code, mailOk, t) ==
  LET base == [Response("login", u.email, "none") EXCEPT !.password = Some(password)]
  IN
  IF IsPermanentlyLocked(u)
  THEN [user |-> u, out |-> [base EXCEPT !.outcome = "RejectedPermanentLock"]]
  ELSE IF IsTemporarilyLocked(u, t)
  THEN [user |-> u,
        out |-> [base EXCEPT !.outcome = "RejectedTemporaryLock",
                             !.remainingMinutes =
                                Some(CeilMinutes(u.temporaryLockUntil[1] - t)),
                             !.lockUntil = u.temporaryLockUntil]]
  ELSE
  LET u1 == SecondChance(u, t)
  IN
  IF ~Compare(password, u1.password)
  THEN LET w == WrongPassword(u1, t)
       IN [user |-> w.user,
           out |-> [base EXCEPT !.outcome = w.outcome,
                                !.remainingAttempts = w.remainingAttempts,
                                !.remainingMinutes = w.remainingMinutes,
                                !.lockUntil = w.lockUntil]]
  ELSE
  LET doc == ResetLockout(u1)
  IN
  IF HasActiveSession(doc)
  THEN \* returns before any save: the reset of the lockout fields is lost
       [user |-> u1, out |-> [base EXCEPT !.outcome = "SessionAlreadyActive"]]
  ELSE IF MfaRequired(doc, t)
  THEN [user |-> [doc EXCEPT !.mfaCode = Some(code),
                             !.mfaExpiry = Some(t + MFA_WINDOW_MS)],
        \* sendMfaEmail throws after the save: the outer catch answers 500
        out |-> [base EXCEPT !.outcome = IF mailOk THEN "MFARequired" ELSE "ServerError"]]
  ELSE
  LET token == JwtSign(doc.email, doc.role, t)
  IN [user |-> SetSession(doc, token, userAgent, t),
      out |-> [base EXCEPT !.outcome = "LoginSuccess", !.token = Some(token)]]

\* the login handler on an existing account: the record as stored when the handler
\* returns, and the response
LoginOn(u, password, userAgent, code, mailOk, t) ==
  LET base == [Response("login", u.email, "none") EXCEPT !.password = Some(password)]
  IN
  IF IsPermanentlyLocked(u)
  THEN [user |-> u, out |-> [base EXCEPT !.outcome = "RejectedPermanentLock"]]
  ELSE IF IsTemporarilyLocked(u, t)
  THEN [user |-> u,
        out |-> [base EXCEPT !.outcome = "RejectedTemporaryLock",
                             !.remainingMinutes =
                                Some(CeilMinutes(u.temporaryLockUntil[1] - t)),
                             !.lockUntil = u.temporaryLockUntil]]
  ELSE
  LET u1 == SecondChance(u, t)
  IN
  IF ~Compare(password, u1.password)
  THEN LET w == WrongPassword(u1, t)
       IN [user |-> w.user,
           out |-> [base EXCEPT !.outcome = w.outcome,
                                !.remainingAttempts = w.remainingAttempts,
                                !.remainingMinutes = w.remainingMinutes,
                                !.lockUntil = w.lockUntil]]
  ELSE IF ~u1.isVerified
  THEN [user |-> u1, out |-> [base EXCEPT !.outcome = "EmailNotVerified"]]
  ELSE
  LET doc == ResetLockout(u1)
  IN
  IF HasActiveSession(doc)
  THEN \* returns before any save: the reset of the lockout fields is lost
       [user |-> u1, out |-> [base EXCEPT !.outcome = "SessionAlreadyActive"]]
  ELSE IF MfaRequired(doc, t)
  THEN [user |-> [doc EXCEPT !.mfaCode = Some(code),
                             !.mfaExpiry = Some(t + MFA_WINDOW_MS)],
        \* sendMfaEmail throws after the save: the outer catch answers 500
        out |-> [base EXCEPT !.outcome = IF mailOk THEN "MFARequired" ELSE "ServerError"]]
  ELSE
  LET token == JwtSign(doc.email, doc.role, t)
  IN [user |-> SetSession(doc, token, userAgent, t),
      out |-> [base EXCEPT !.outcome = "LoginSuccess", !.token = Some(token)]]

(* ------------------------------------------------------------------ *)
(* Environment                                                         *)
(* ------------------------------------------------------------------ *)

\* process.env, with ADMIN_EMAIL not set
EnvUnset == [ADMIN_EMAIL |-> None, ADMIN_PASSWORD |-> None]

\* process.env with the admin account configured for the email a@x.com
EnvAdmin == [ADMIN_EMAIL |-> Some("a@x.com"), ADMIN_PASSWORD |-> Some("pw")]

\* process.env with ADMIN_EMAIL set and ADMIN_PASSWORD missing
EnvAdminNoPassword == [ADMIN_EMAIL |-> Some("a@x.com"), ADMIN_PASSWORD |-> None]

\* process.env with the admin account configured for an email no request submits
EnvAdminElsewhere == [ADMIN_EMAIL |-> Some("admin@x.com"), ADMIN_PASSWORD |-> Some("pw")]

(* ------------------------------------------------------------------ *)
(* POST /verify-mfa                                                    *)
(* ------------------------------------------------------------------ *)

ConsumeMfaKeepingCode(u, t) ==
  [u EXCEPT !.lastMfaVerifiedAt = Some(t)]

\* clear MFA data and update the verification timestamp (saved)
ConsumeMfa(u, t) ==
  [u EXCEPT !.mfaCode = None, !.mfaExpiry = None, !.lastMfaVerifiedAt = Some(t)]

\* the record the handler leaves stored after a successful verification: the session
\* fields are assigned on the document after the last save and are never saved
VerifiedRecord(u, token, userAgent, t) == ConsumeMfa(u, t)

VerifyMfaOnAnyOutstanding(u, code, userAgent, t) ==
  LET base == [Response("verifyMfa", u.email, "none") EXCEPT !.code = Some(code)]
  IN
  IF u.activeSessionToken # None
  THEN [user |-> u, out |-> [base EXCEPT !.outcome = "SessionAlreadyActive"]]
  ELSE IF u.mfaCode = None
  THEN [user |-> u, out |-> [base EXCEPT !.outcome = "InvalidCode"]]
  ELSE IF u.mfaExpiry # None /\ t > u.mfaExpiry[1]
  THEN [user |-> u, out |-> [base EXCEPT !.outcome = "Expired"]]
  ELSE
  LET token == JwtSign(u.email, u.role, t)
  IN [user |-> VerifiedRecord(u, token, userAgent, t),
      out |-> [base EXCEPT !.outcome = "MfaVerified", !.token = Some(token)]]

VerifyMfaOnExpiredAtBoundary(u, code, userAgent, t) ==
  LET base == [Response("verifyMfa", u.email, "none") EXCEPT !.code = Some(code)]
  IN
  IF u.activeSessionToken # None
  THEN [user |-> u, out |-> [base EXCEPT !.outcome = "SessionAlreadyActive"]]
  ELSE IF u.mfaCode = None \/ u.mfaCode # Some(code)
  THEN [user |-> u, out |-> [base EXCEPT !.outcome = "InvalidCode"]]
  ELSE IF u.mfaExpiry # None /\ t >= u.mfaExpiry[1]
  THEN [user |-> u, out |-> [base EXCEPT !.outcome = "Expired"]]
  ELSE
  LET token == JwtSign(u.email, u.role, t)
  IN [user |-> VerifiedRecord(u, token, userAgent, t),
      out |-> [base EXCEPT !.outcome = "MfaVerified", !.token = Some(token)]]

VerifyMfaOnIgnoringSession(u, code, userAgent, t) ==
  LET base == [Response("verifyMfa", u.email, "none") EXCEPT !.code = Some(code)]
  IN
  IF u.mfaCode = None \/ u.mfaCode # Some(code)
  THEN [user |-> u, out |-> [base EXCEPT !.outcome = "InvalidCode"]]
  ELSE IF u.mfaExpiry # None /\ t > u.mfaExpiry[1]
  THEN [user |-> u, out |-> [base EXCEPT !.outcome = "Expired"]]
  ELSE
  LET token == JwtSign(u.email, u.role, t)
  IN [user |-> VerifiedRecord(u, token, userAgent, t),
      out |-> [base EXCEPT !.outcome = "MfaVerified", !.token = Some(token)]]

\* the verify-mfa handler on an existing account
VerifyMfaOn(u, code, userAgent, t) ==
  LET base == [Response("verifyMfa", u.email, "none") EXCEPT !.code = Some(code)]
  IN
  IF u.activeSessionToken # None
  THEN [user |-> u, out |-> [base EXCEPT !.outcome = "SessionAlreadyActive"]]
  ELSE IF u.mfaCode = None \/ u.mfaCode # Some(code)
  THEN [user |-> u, out |-> [base EXCEPT !.outcome = "InvalidCode"]]
  ELSE IF u.mfaExpiry # None /\ t > u.mfaExpiry[1]
  THEN [user |-> u, out |-> [base EXCEPT !.outcome = "Expired"]]
  ELSE
  LET token == JwtSign(u.email, u.role, t)
  IN [user |-> VerifiedRecord(u, token, userAgent, t),
      out |-> [base EXCEPT !.outcome = "MfaVerified", !.token = Some(token)]]

(* ------------------------------------------------------------------ *)
(* authenticateJWT                                                     *)
(* ------------------------------------------------------------------ *)

AuthenticateJWTSignatureOnly(token, t) ==
  IF ~JwtVerify(token, t) THEN "InvalidToken"
  ELSE IF ~Exists(token.userId) THEN "UserNotFound"
  ELSE "Authorized"

\* the middleware's decision on a bearer token
AuthenticateJWT(token, t) ==
  IF ~JwtVerify(token, t) THEN "InvalidToken"
  ELSE IF ~Exists(token.userId) THEN "UserNotFound"
  ELSE IF users[token.userId].activeSessionToken # Some(token) THEN "SessionInvalid"
  ELSE "Authorized"

(* ------------------------------------------------------------------ *)
(* POST /reset-password, POST /logout                                  *)
(* ------------------------------------------------------------------ *)

FindByResetTokenIgnoringExpiry(token, t) ==
  {e \in DOMAIN users : users[e].resetToken = Some(token)}

\* User.findOne({ resetToken: token, resetTokenExpiry: { $gt: Date.now() } })
FindByResetToken(token, t) ==
  {e \in DOMAIN users :
     /\ users[e].resetToken = Some(token)
     /\ users[e].resetTokenExpiry # None
     /\ users[e].resetTokenExpiry[1] > t}

ApplyResetKeepingToken(u, newPassword) ==
  [u EXCEPT !.password = Hash(newPassword),
            !.lastMfaVerifiedAt = None,
            !.failedLoginAttempts = 0,
            !.temporaryLockUntil = None,
            !.permanentlyLocked = FALSE,
            !.lockoutStage = 0]

ApplyResetKeepingMfa(u, newPassword) ==
  [u EXCEPT !.password = Hash(newPassword),
            !.resetToken = None,
            !.resetTokenExpiry = None,
            !.failedLoginAttempts = 0,
            !.temporaryLockUntil = None,
            !.permanentlyLocked = FALSE,
            !.lockoutStage = 0]

ApplyResetEndingSession(u, newPassword) ==
  [u EXCEPT !.password = Hash(newPassword),
            !.lastMfaVerifiedAt = None,
            !.resetToken = None,
            !.resetTokenExpiry = None,
            !.failedLoginAttempts = 0,
            !.temporaryLockUntil = None,
            !.permanentlyLocked = FALSE,
            !.lockoutStage = 0,
            !.activeSessionToken = None,
            !.activeDevice = None,
            !.sessionCreatedAt = None]

\* update the password, clear the MFA verification and the reset token, reset the lockout
ApplyReset(u, newPassword) ==
  [u EXCEPT !.password = Hash(newPassword),
            !.lastMfaVerifiedAt = None,
            !.resetToken = None,
            !.resetTokenExpiry = None,
            !.failedLoginAttempts = 0,
            !.temporaryLockUntil = None,
            !.permanentlyLocked = FALSE,
            !.lockoutStage = 0]

ClearSessionKeepingDevice(u) ==
  [u EXCEPT !.activeSessionToken = None,
            !.sessionCreatedAt = None]

\* clear the active session
ClearSession(u) ==
  [u EXCEPT !.activeSessionToken = None,
            !.activeDevice = None,
            !.sessionCreatedAt = None]

(* ------------------------------------------------------------------ *)
(* The clock                                                           *)
(* ------------------------------------------------------------------ *)

\* the instants the clock is advanced to: for every stored expiry the first instant at
\* which it is evaluated as passed, for the lock and the trust window also the last
\* instant one second before, for the code and the trust window the last instant at
\* which they hold
Instants ==
  LET ofUser(u) ==
        UNION ({{u.temporaryLockUntil[i] - MS_PER_S, u.temporaryLockUntil[i]}
                  : i \in DOMAIN u.temporaryLockUntil}
          \cup {{u.mfaExpiry[i], u.mfaExpiry[i] + 1} : i \in DOMAIN u.mfaExpiry}
          \cup {{u.lastMfaVerifiedAt[i] + MFA_WINDOW_MS - MS_PER_S,
                 u.lastMfaVerifiedAt[i] + MFA_WINDOW_MS,
                 u.lastMfaVerifiedAt[i] + MFA_WINDOW_MS + 1}
                  : i \in DOMAIN u.lastMfaVerifiedAt}
          \cup {{u.resetTokenExpiry[i]} : i \in DOMAIN u.resetTokenExpiry}
          \cup {{u.activeSessionToken[i].exp * MS_PER_S}
                  : i \in DOMAIN u.activeSessionToken})
      all == UNION {ofUser(users[e]) : e \in DOMAIN users}
               \cup {tok.exp * MS_PER_S : tok \in verifyMail}
               \cup {held[i].exp * MS_PER_S : i \in DOMAIN held}
  IN {x \in all : x > now}

(* ------------------------------------------------------------------ *)
(* Actions                                                             *)
(* ------------------------------------------------------------------ *)

Init ==
  /\ users = << >>
  /\ now = 0
  /\ ticks = 0
  /\ held = None
  /\ verifyMail = {}
  /\ env = EnvUnset
  /\ resp = NoResponse
  /\ calls = << >>

\* time passes
Tick ==
  /\ ticks < MaxTicks
  \* two advances in a row are one advance
  /\ resp.op # "tick"
  /\ \E t \in Instants : now' = t
  /\ ticks' = ticks + 1
  /\ resp' = Response("tick", "", "none")
  /\ UNCHANGED <<users, held, verifyMail, env, calls>>

\* the client stores the token a response carries, over the one it held
Keep(out) ==
  IF out.token # None THEN out.token ELSE held

\* the bearer tokens a request may present: the one the client holds, or a forged one
Bearers == {held[i] : i \in DOMAIN held} \cup {ForgedToken}

RegisterReqRollingBack(email, password, mailOk) ==
    IF Exists(email)
    THEN /\ resp' = Response("register", email, "DuplicateEmail")
         /\ UNCHANGED <<users, now, ticks, held, verifyMail, env, calls>>
    ELSE /\ users' = IF mailOk
                     THEN (email :> NewUser(email, password, "user", FALSE)) @@ users
                     ELSE users
         /\ verifyMail' = IF mailOk
                          THEN verifyMail \cup {JwtSign(email, "none", now)}
                          ELSE verifyMail
         /\ resp' = Response("register", email, "Registered")
         /\ UNCHANGED <<now, ticks, held, env, calls>>

\* POST /register
RegisterReq(email, password, mailOk) ==
    IF Exists(email)
    THEN /\ resp' = Response("register", email, "DuplicateEmail")
         /\ UNCHANGED <<users, now, ticks, held, verifyMail, env, calls>>
    ELSE /\ users' = (email :> NewUser(email, password, "user", FALSE)) @@ users
         \* a failure of sendVerificationEmail is logged and does not fail the registration
         /\ verifyMail' = IF mailOk
                          THEN verifyMail \cup {JwtSign(email, "none", now)}
                          ELSE verifyMail
         /\ resp' = Response("register", email, "Registered")
         /\ UNCHANGED <<now, ticks, held, env, calls>>

Register ==
  \E email \in Emails, password \in GoodPasswords, mailFails \in BOOLEAN :
    \* the delivery matters only when an account is created
    /\ ~mailFails \/ ~Exists(email)
    /\ RegisterReq(email, password, ~mailFails)

\* GET /verify-email
VerifyEmail ==
  \E token \in verifyMail :
    /\ resp' = Response("verifyEmail", token.userId,
                 IF ~JwtVerify(token, now) THEN "InvalidOrExpiredToken"
                 ELSE IF ~Exists(token.userId) THEN "NotFound"
                 ELSE IF users[token.userId].isVerified THEN "AlreadyVerified"
                 ELSE "EmailVerified")
    /\ users' = IF resp'.outcome = "EmailVerified"
                THEN [users EXCEPT ![token.userId].isVerified = TRUE]
                ELSE users
    /\ UNCHANGED <<now, ticks, held, verifyMail, env, calls>>

\* the login would reach the MFA issue
IssuesChallenge(email, password) ==
  /\ Exists(email) \/ (Some(email) = env.ADMIN_EMAIL /\ env.ADMIN_PASSWORD # None)
  /\ LET u == IF Exists(email) THEN users[email]
                ELSE NewUser(email, env.ADMIN_PASSWORD[1], "admin", TRUE)
     IN LoginOn(u, password, "", DefaultCode, TRUE, now).out.outcome = "MFARequired"

\* POST /login
LoginReq(email, password, userAgent, code, mailOk) ==
    LET \* auto-create the admin user on first login
        creating == ~Exists(email) /\ Some(email) = env.ADMIN_EMAIL
        created == creating /\ env.ADMIN_PASSWORD # None
        found == Exists(email) \/ created
        currentUser == IF created
                       THEN NewUser(email, env.ADMIN_PASSWORD[1], "admin", TRUE)
                       ELSE users[email]
    IN
    IF creating /\ ~created
    THEN /\ resp' = [Response("login", email, "AdminNotConfigured")
                       EXCEPT !.password = Some(password)]
         /\ UNCHANGED <<users, now, ticks, held, verifyMail, env, calls>>
    ELSE IF ~found
    THEN /\ resp' = [Response("login", email, "InvalidCredentials")
                       EXCEPT !.password = Some(password)]
         /\ UNCHANGED <<users, now, ticks, held, verifyMail, env, calls>>
    ELSE LET r == LoginOn(currentUser, password, userAgent, code, mailOk, now)
         IN /\ users' = (email :> r.user) @@ users
            /\ resp' = r.out
            /\ held' = Keep(r.out)
            /\ UNCHANGED <<now, ticks, verifyMail, env, calls>>

Login ==
  \E email \in Emails, password \in Passwords, userAgent \in UserAgents,
     code \in Codes, mailFails \in BOOLEAN :
    \* the code drawn and the delivery matter only when a challenge is issued
    /\ (code = DefaultCode /\ ~mailFails) \/ IssuesChallenge(email, password)
    /\ LoginReq(email, password, userAgent, code, ~mailFails)

\* POST /verify-mfa
VerifyMfa ==
  \E userId \in Emails, code \in Codes, userAgent \in UserAgents :
    IF ~Exists(userId)
    THEN /\ resp' = [Response("verifyMfa", userId, "InvalidUser")
                       EXCEPT !.code = Some(code)]
         /\ UNCHANGED <<users, now, ticks, held, verifyMail, env, calls>>
    ELSE LET r == VerifyMfaOn(users[userId], code, userAgent, now)
         IN /\ users' = [users EXCEPT ![userId] = r.user]
            /\ resp' = r.out
            /\ held' = Keep(r.out)
            /\ UNCHANGED <<now, ticks, verifyMail, env, calls>>

ForgotPasswordReqSendBeforeSave(email, resetToken, mailOk) ==
    IF ~Exists(email)
    THEN /\ resp' = Response("forgotPassword", email, "Generic")
         /\ UNCHANGED <<users, now, ticks, held, verifyMail, env, calls>>
    ELSE /\ users' = IF mailOk
                     THEN [users EXCEPT
                             ![email].resetToken = Some(resetToken),
                             ![email].resetTokenExpiry = Some(now + RESET_TOKEN_MS)]
                     ELSE users
         /\ resp' = Response("forgotPassword", email,
                             IF mailOk THEN "Generic" ELSE "SendFailed")
         /\ UNCHANGED <<now, ticks, held, verifyMail, env, calls>>

\* POST /forgot-password
ForgotPasswordReq(email, resetToken, mailOk) ==
    IF ~Exists(email)
    THEN /\ resp' = Response("forgotPassword", email, "Generic")
         /\ UNCHANGED <<users, now, ticks, held, verifyMail, env, calls>>
    ELSE /\ users' = [users EXCEPT ![email].resetToken = Some(resetToken),
                                   ![email].resetTokenExpiry = Some(now + RESET_TOKEN_MS)]
         /\ resp' = Response("forgotPassword", email,
                             IF mailOk THEN "Generic" ELSE "SendFailed")
         /\ UNCHANGED <<now, ticks, held, verifyMail, env, calls>>

ForgotPassword ==
  \E email \in Emails, resetToken \in ResetTokens, mailFails \in BOOLEAN :
    \* the delivery matters only when a token is issued
    /\ ~mailFails \/ Exists(email)
    /\ ForgotPasswordReq(email, resetToken, ~mailFails)

\* POST /reset-password
ResetPassword ==
  \E token \in SubmittedResetTokens, newPassword \in GoodPasswords :
    LET found == FindByResetToken(token, now)
    IN IF found = {}
       THEN /\ resp' = [Response("resetPassword", "", "InvalidOrExpiredToken")
                          EXCEPT !.code = Some(token)]
            /\ UNCHANGED <<users, now, ticks, held, verifyMail, env, calls>>
       ELSE \E e \in found :
            /\ users' = [users EXCEPT ![e] = ApplyReset(users[e], newPassword)]
            /\ resp' = [Response("resetPassword", e, "PasswordReset")
                          EXCEPT !.code = Some(token), !.password = Some(newPassword)]
            /\ UNCHANGED <<now, ticks, held, verifyMail, env, calls>>

\* POST /logout, behind authenticateJWT
Logout ==
  \E token \in {held[i] : i \in DOMAIN held} :
    LET auth == AuthenticateJWT(token, now)
    IN /\ resp' = [Response("logout", token.userId,
                            IF auth = "Authorized" THEN "LoggedOut" ELSE auth)
                     EXCEPT !.presented = Some(token)]
       /\ users' = IF auth = "Authorized"
                   THEN [users EXCEPT ![token.userId] = ClearSession(users[token.userId])]
                   ELSE users
       /\ UNCHANGED <<now, ticks, held, verifyMail, env, calls>>

\* a protected request behind authenticateJWT (/api/bookings, /api/admin)
Validate ==
  \E token \in Bearers :
    /\ resp' = [Response("validate", token.userId, AuthenticateJWT(token, now))
                  EXCEPT !.presented = Some(token)]
    /\ UNCHANGED <<users, now, ticks, held, verifyMail, env, calls>>

Next ==
  \/ Tick
  \/ Register
  \/ VerifyEmail
  \/ Login
  \/ VerifyMfa
  \/ ForgotPassword
  \/ ResetPassword
  \/ Logout
  \/ Validate

Spec == Init /\ [][Next]_vars

(* ------------------------------------------------------------------ *)
(* Overlapping requests                                                *)
(* ------------------------------------------------------------------ *)

\* Every handler is an async function: between the await that reads the account and
\* the await that saves it, the handlers of other requests run.  A request in flight is
\* a call: the document it has read, and, once it has saved, its response.

\* the server started with ADMIN_EMAIL in its environment
InitAdmin ==
  /\ users = << >>
  /\ now = 0
  /\ ticks = 0
  /\ held = None
  /\ verifyMail = {}
  /\ env \in {EnvAdmin, EnvAdminNoPassword, EnvAdminElsewhere}
  /\ resp = NoResponse
  /\ calls = << >>

\* the requests that meet the admin account: registration, login and the session
NextAdmin ==
  \/ Tick
  \/ Register
  \/ Login
  \/ VerifyMfa
  \/ Logout

SpecAdmin == InitAdmin /\ [][NextAdmin]_vars

CallIds == 1 .. MaxCalls

\* document.save() writes the paths modified on the document since it was read, and
\* leaves the other paths of the stored record as they are
Save(stored, doc, modified) ==
  [f \in DOMAIN stored |-> IF modified[f] # doc[f] THEN modified[f] ELSE stored[f]]

\* a verified account that has never passed MFA
VerifiedAccount ==
  [NewUser("a@x.com", "pw", "user", FALSE) EXCEPT !.isVerified = TRUE]

\* the same account after a login has stored a challenge
ChallengedAccount ==
  LoginOn(VerifiedAccount, "pw", "Mozilla", DefaultCode, TRUE, 0).user

\* the same account after verify-mfa has accepted the code: inside the trust window
TrustedAccount ==
  VerifyMfaOn(ChallengedAccount, DefaultCode, "Mozilla", 0).user

InitRace ==
  /\ users \in {("a@x.com" :> u) :
                  u \in {VerifiedAccount, ChallengedAccount, TrustedAccount}}
  /\ now = 0
  /\ ticks = 0
  /\ held = None
  /\ verifyMail = {}
  /\ env = EnvUnset
  /\ resp = NoResponse
  /\ calls = << >>

\* a request that has read the account: the calls that had answered when it read
NewCall(op, email, password, code) ==
  [op |-> op, email |-> email, password |-> password, code |-> code,
   doc |-> users[email],
   after |-> {c \in DOMAIN calls : calls[c].done},
   done |-> FALSE, out |-> NoResponse]

\* POST /login up to User.findOne({ email })
ReadLogin ==
  \E c \in CallIds \ DOMAIN calls, email \in DOMAIN users, password \in Passwords :
    /\ calls' = (c :> NewCall("login", email, Some(password), None)) @@ calls
    /\ UNCHANGED <<users, now, ticks, held, verifyMail, env, resp>>

\* POST /verify-mfa up to User.findById(userId)
ReadVerifyMfa ==
  \E c \in CallIds \ DOMAIN calls, userId \in DOMAIN users, code \in Codes :
    /\ calls' = (c :> NewCall("verifyMfa", userId, None, Some(code))) @@ calls
    /\ UNCHANGED <<users, now, ticks, held, verifyMail, env, resp>>

\* POST /login from bcrypt.compare to the response, on the document read
WriteLogin ==
  \E c \in DOMAIN calls, userAgent \in UserAgents, code \in Codes :
    LET call == calls[c]
        r == LoginOn(call.doc, call.password[1], userAgent, code, TRUE, now)
    IN /\ call.op = "login" /\ ~call.done
       \* the code drawn matters only when a challenge is issued
       /\ code = DefaultCode \/ r.out.outcome = "MFARequired"
       /\ users' = [users EXCEPT ![call.email] = Save(@, call.doc, r.user)]
       /\ calls' = [calls EXCEPT ![c].done = TRUE, ![c].out = r.out]
       /\ UNCHANGED <<now, ticks, held, verifyMail, env, resp>>

\* POST /verify-mfa from the session check to the response, on the document read
WriteVerifyMfa ==
  \E c \in DOMAIN calls, userAgent \in UserAgents :
    LET call == calls[c]
        r == VerifyMfaOn(call.doc, call.code[1], userAgent, now)
    IN /\ call.op = "verifyMfa" /\ ~call.done
       /\ users' = [users EXCEPT ![call.email] = Save(@, call.doc, r.user)]
       /\ calls' = [calls EXCEPT ![c].done = TRUE, ![c].out = r.out]
       /\ UNCHANGED <<now, ticks, held, verifyMail, env, resp>>

NextRace ==
  \/ Tick
  \/ ReadLogin
  \/ ReadVerifyMfa
  \/ WriteLogin
  \/ WriteVerifyMfa

SpecRace == InitRace /\ [][NextRace]_vars

(* ------------------------------------------------------------------ *)
(* Properties                                                          *)
(* ------------------------------------------------------------------ *)

\* the step is a login request for the account e
LoginStep(e) == resp'.op = "login" /\ resp'.email = e

\* the step is a login request for the account e with a password that does not match
\* the hash stored before the step
WrongLoginStep(e) ==
  LoginStep(e) /\ ~Compare(resp'.password[1], users[e].password)

\* the step is a login request for the account e with the matching password
RightLoginStep(e) ==
  LoginStep(e) /\ Compare(resp'.password[1], users[e].password)

\* the account e is inside an unexpired temporary lock
InsideTemporaryLock(e) ==
  /\ users[e].temporaryLockUntil # None
  /\ now < users[e].temporaryLockUntil[1]

\* C1: from lockoutStage 0 the first and the second consecutive wrong password are
\* answered InvalidCredentials with remainingAttempts 2 and 1, and the third is itself
\* answered RejectedTemporaryLock and leaves lockoutStage 1, failedLoginAttempts 3 and
\* temporaryLockUntil = now + 5 minutes
C1_ThirdFailureLocks ==
  [][\A e \in DOMAIN users :
       (WrongLoginStep(e) /\ users[e].lockoutStage = 0) =>
         LET n == users[e].failedLoginAttempts
             v == users'[e]
         IN /\ n \in {0, 1, 2}
            /\ v.failedLoginAttempts = n + 1
            /\ n < 2 =>
                 /\ resp'.outcome = "InvalidCredentials"
                 /\ resp'.remainingAttempts = Some(2 - n)
                 /\ v.lockoutStage = 0
                 /\ v.temporaryLockUntil = None
            /\ n = 2 =>
                 /\ resp'.outcome = "RejectedTemporaryLock"
                 /\ v.lockoutStage = 1
                 /\ v.temporaryLockUntil = Some(now + 300000)
                 /\ resp'.lockUntil = Some(now + 300000)
                 /\ ~v.permanentlyLocked]_vars

\* C1 witness: the third wrong password has just locked the account for 5 minutes
C1_Witness ==
  \E e \in DOMAIN users :
    /\ resp.op = "login" /\ resp.email = e
    /\ resp.outcome = "RejectedTemporaryLock"
    /\ ~Compare(resp.password[1], users[e].password)
    /\ users[e].failedLoginAttempts = 3
    /\ users[e].lockoutStage = 1
    /\ users[e].temporaryLockUntil = Some(now + 300000)

\* C2: a login made while now < temporaryLockUntil is answered RejectedTemporaryLock,
\* whether the password is right or wrong, and leaves the whole account record unchanged
C2_LockedLoginRejected ==
  [][\A e \in DOMAIN users :
       (LoginStep(e) /\ InsideTemporaryLock(e)) =>
         /\ resp'.outcome = "RejectedTemporaryLock"
         /\ resp'.token = None
         /\ users'[e] = users[e]]_vars

\* C2 witness: a login with the right password is rejected one second before the lock ends
C2_Witness ==
  \E e \in DOMAIN users :
    /\ resp.op = "login" /\ resp.email = e
    /\ resp.outcome = "RejectedTemporaryLock"
    /\ Compare(resp.password[1], users[e].password)
    /\ users[e].temporaryLockUntil = Some(now + 1000)
    /\ resp.remainingMinutes = Some(1)
    /\ users[e].failedLoginAttempts = 3

\* C3: after the temporary lock has expired the failures are counted from zero: the
\* first and the second wrong password are answered InvalidCredentials, the third sets
\* lockoutStage 2 and permanentlyLocked; and an account becomes permanently locked only
\* by the third of them
C3_ThreeMoreFailures ==
  [][\A e \in DOMAIN users :
       /\ (WrongLoginStep(e) /\ users[e].lockoutStage = 1 /\ ~InsideTemporaryLock(e)) =>
            LET n == IF users[e].temporaryLockUntil # None
                     THEN 0
                     ELSE users[e].failedLoginAttempts
                v == users'[e]
            IN /\ n \in {0, 1, 2}
               /\ v.failedLoginAttempts = n + 1
               /\ v.temporaryLockUntil = None
               /\ n < 2 =>
                    /\ resp'.outcome = "InvalidCredentials"
                    /\ resp'.remainingAttempts = Some(2 - n)
                    /\ v.lockoutStage = 1
                    /\ ~v.permanentlyLocked
               /\ n = 2 =>
                    /\ resp'.outcome = "RejectedPermanentLock"
                    /\ v.lockoutStage = 2
                    /\ v.permanentlyLocked
       /\ (~users[e].permanentlyLocked /\ users'[e].permanentlyLocked) =>
            /\ WrongLoginStep(e)
            /\ users[e].lockoutStage = 1
            /\ users[e].temporaryLockUntil = None
            /\ users[e].failedLoginAttempts = 2]_vars

\* C3 witness: the third wrong password after the expiry has locked the account for good
C3_Witness ==
  \E e \in DOMAIN users :
    /\ resp.op = "login" /\ resp.email = e
    /\ resp.outcome = "RejectedPermanentLock"
    /\ ~Compare(resp.password[1], users[e].password)
    /\ users[e].permanentlyLocked
    /\ users[e].lockoutStage = 2
    /\ users[e].failedLoginAttempts = 3
    /\ users[e].temporaryLockUntil = None

ReturnsToken(r) == r.op \in {"login", "verifyMfa"} /\ r.token # None

\* C5: after verifyMfa has succeeded and returned a session token for an account, the
\* next login for that account with the right password is answered SessionAlreadyActive
C5_SecondLoginRefused ==
  [][\A e \in DOMAIN users :
       (/\ resp.op = "verifyMfa" /\ resp.email = e
        /\ resp.outcome = "MfaVerified" /\ resp.token # None
        /\ RightLoginStep(e)) =>
         resp'.outcome = "SessionAlreadyActive"]_vars

\* C6: whenever login or verifyMfa returns a session token, the stored record holds
\* that token as activeSessionToken, with activeDevice and sessionCreatedAt set, and the
\* middleware accepts the token
C6_ReturnedTokenIsStored ==
  ReturnsToken(resp) =>
    /\ resp.email \in DOMAIN users
    /\ users[resp.email].activeSessionToken = resp.token
    /\ users[resp.email].activeDevice # None
    /\ users[resp.email].sessionCreatedAt # None
    /\ AuthenticateJWT(resp.token[1], now) = "Authorized"

\* C7 as claimed: while activeSessionToken is set, a login with the right password is
\* answered SessionAlreadyActive and changes neither the challenge nor the session
C7_ActiveSessionAlwaysRefuses ==
  [][\A e \in DOMAIN users :
       (RightLoginStep(e) /\ users[e].activeSessionToken # None) =>
         /\ resp'.outcome = "SessionAlreadyActive"
         /\ resp'.token = None
         /\ users'[e].mfaCode = users[e].mfaCode
         /\ users'[e].mfaExpiry = users[e].mfaExpiry
         /\ users'[e].activeSessionToken = users[e].activeSessionToken]_vars

\* C7 as amended: while activeSessionToken is set, a login with the right password
\* returns no token and changes neither the challenge nor the session; it is answered
\* SessionAlreadyActive unless the account is permanently locked or inside an unexpired
\* temporary lock, where it is answered with the lock. A logout clears the session, and
\* a login on an account without a session is never answered SessionAlreadyActive
C7_ActiveSessionRefusesUnlessLocked ==
  [][\A e \in DOMAIN users :
       /\ (RightLoginStep(e) /\ users[e].activeSessionToken # None) =>
            /\ resp'.token = None
            /\ users'[e].mfaCode = users[e].mfaCode
            /\ users'[e].mfaExpiry = users[e].mfaExpiry
            /\ users'[e].activeSessionToken = users[e].activeSessionToken
            /\ resp'.outcome =
                 IF users[e].permanentlyLocked THEN "RejectedPermanentLock"
                 ELSE IF InsideTemporaryLock(e) THEN "RejectedTemporaryLock"
                 ELSE "SessionAlreadyActive"
       /\ (resp'.op = "logout" /\ resp'.email = e /\ resp'.outcome = "LoggedOut") =>
            users'[e].activeSessionToken = None
       /\ (LoginStep(e) /\ users[e].activeSessionToken = None) =>
            resp'.outcome # "SessionAlreadyActive"]_vars

\* C7 witness: a login with the right password is refused for the active session
C7_Witness ==
  \E e \in DOMAIN users :
    /\ resp.op = "login" /\ resp.email = e
    /\ resp.outcome = "SessionAlreadyActive"
    /\ Compare(resp.password[1], users[e].password)
    /\ users[e].activeSessionToken # None

\* C8: the middleware authorizes a bearer token only if it is signed with the secret,
\* unexpired, and equal to the activeSessionToken stored for its account; once a logout
\* has cleared the session the same token is no longer authorized
C8_AuthorizedOnlyActiveSession ==
  [][(resp'.op \in {"validate", "logout"} /\ resp'.outcome \in {"Authorized", "LoggedOut"}) =>
       LET token == resp'.presented[1]
       IN /\ token.sig = "JWT_SECRET"
          /\ (now \div 1000) < token.exp
          /\ token.userId \in DOMAIN users
          /\ users[token.userId].activeSessionToken = Some(token)
          /\ resp'.op = "logout" =>
               /\ users'[token.userId].activeSessionToken = None
               /\ users'[token.userId].activeSessionToken # Some(token)]_vars

\* C8 witness: a token that is signed and unexpired is refused after the logout that
\* cleared the session it was issued for
C8_Witness ==
  /\ resp.op = "validate"
  /\ resp.outcome = "SessionInvalid"
  /\ resp.presented[1].sig = "JWT_SECRET"
  /\ (now \div 1000) < resp.presented[1].exp
  /\ users[resp.presented[1].userId].activeSessionToken = None
  \* the token was returned by a login, not by verifyMfa: it was the stored session
  /\ users[resp.presented[1].userId].lastMfaVerifiedAt # None
  /\ resp.presented[1].iat # users[resp.presented[1].userId].lastMfaVerifiedAt[1] \div 1000

\* C9: when verifyMfa has just succeeded with a code, the next verifyMfa for the account
\* with the same code is answered InvalidCode and returns no token: the record a
\* successful verifyMfa leaves stored answers the same code with InvalidCode
C9_CodeSingleUse ==
  [][/\ \A e \in DOMAIN users :
          (/\ resp.op = "verifyMfa" /\ resp.email = e /\ resp.outcome = "MfaVerified"
           /\ resp'.op = "verifyMfa" /\ resp'.email = e /\ resp'.code = resp.code) =>
            /\ resp'.outcome = "InvalidCode"
            /\ resp'.token = None
     /\ \A e \in DOMAIN users, userAgent \in UserAgents :
          (resp'.op = "verifyMfa" /\ resp'.email = e /\ resp'.outcome = "MfaVerified") =>
            LET again == VerifyMfaOn(users'[e], resp'.code[1], userAgent, now')
            IN /\ again.out.outcome = "InvalidCode"
               /\ again.out.token = None
               /\ again.user = users'[e]]_vars

\* C9 witness: the code verified at this instant has been submitted again and refused
C9_Witness ==
  \E e \in DOMAIN users :
    /\ resp.op = "verifyMfa" /\ resp.email = e
    /\ resp.outcome = "InvalidCode"
    /\ users[e].mfaCode = None
    /\ users[e].lastMfaVerifiedAt = Some(now)
    /\ held # None
    /\ held[1].iat = now \div 1000
    /\ users[e].activeSessionToken = None

\* the login with the right password reaches the trust window check
ReachesTrustWindow(e) ==
  /\ RightLoginStep(e)
  /\ users[e].isVerified
  /\ ~users[e].permanentlyLocked
  /\ ~InsideTemporaryLock(e)
  /\ users[e].activeSessionToken = None
  /\ users[e].lastMfaVerifiedAt # None

\* C10 as claimed: a login exactly at lastMfaVerifiedAt + 72h is answered MFARequired
\* without a token, a login one second earlier gets a session directly
C10_BoundaryRequiresChallenge ==
  [][\A e \in DOMAIN users :
       ReachesTrustWindow(e) =>
         LET end == users[e].lastMfaVerifiedAt[1] + 72 * 60 * 60 * 1000
         IN /\ now = end =>
                 (resp'.outcome = "MFARequired" /\ resp'.token = None)
            /\ now = end - 1000 => resp'.outcome = "LoginSuccess"]_vars

\* C10 as amended: a login exactly at lastMfaVerifiedAt + 72h, like a login one second
\* earlier, skips the challenge and gets a session; one millisecond later a new
\* challenge is stored and no token is returned
C10_BoundaryStillTrusted ==
  [][\A e \in DOMAIN users :
       ReachesTrustWindow(e) =>
         LET end == users[e].lastMfaVerifiedAt[1] + 72 * 60 * 60 * 1000
             v == users'[e]
         IN /\ now \in {end - 1000, end} =>
                 /\ resp'.outcome = "LoginSuccess"
                 /\ resp'.token # None
                 /\ v.activeSessionToken = resp'.token
                 /\ v.mfaCode = users[e].mfaCode
                 /\ v.mfaExpiry = users[e].mfaExpiry
            /\ now = end + 1 =>
                 /\ resp'.outcome \in {"MFARequired", "ServerError"}
                 /\ resp'.token = None
                 /\ v.activeSessionToken = None
                 /\ v.mfaCode # None
                 /\ v.mfaExpiry = Some(now + 72 * 60 * 60 * 1000)]_vars

\* C10 witness: a login exactly at lastMfaVerifiedAt + 72h has got a session
C10_Witness ==
  \E e \in DOMAIN users :
    /\ resp.op = "login" /\ resp.email = e
    /\ resp.outcome = "LoginSuccess"
    /\ users[e].lastMfaVerifiedAt # None
    /\ now = users[e].lastMfaVerifiedAt[1] + 72 * 60 * 60 * 1000
    /\ users[e].activeSessionToken = resp.token

\* the login with the right password reaches the MFA decision: the account is verified,
\* not locked and has no active session
ReachesMfaDecision(e) ==
  /\ RightLoginStep(e)
  /\ users[e].isVerified
  /\ ~users[e].permanentlyLocked
  /\ ~InsideTemporaryLock(e)
  /\ users[e].activeSessionToken = None

\* the trust window of the account e is valid now
TrustWindowValid(e) ==
  /\ users[e].lastMfaVerifiedAt # None
  /\ now <= users[e].lastMfaVerifiedAt[1] + 72 * 60 * 60 * 1000

\* C11 as claimed: a login that reaches the MFA decision inside the trust window returns
\* a session token and issues no challenge; otherwise it stores a code with
\* mfaExpiry = now + 72h, is answered MFARequired without a token and leaves
\* activeSessionToken null
C11_TrustedOrMfaRequired ==
  [][\A e \in DOMAIN users :
       ReachesMfaDecision(e) =>
         LET v == users'[e]
         IN IF TrustWindowValid(e)
            THEN /\ resp'.outcome = "LoginSuccess"
                 /\ resp'.token # None
                 /\ v.mfaCode = users[e].mfaCode
                 /\ v.mfaExpiry = users[e].mfaExpiry
            ELSE /\ resp'.outcome = "MFARequired"
                 /\ resp'.token = None
                 /\ v.mfaCode # None
                 /\ v.mfaExpiry = Some(now + 72 * 60 * 60 * 1000)
                 /\ v.activeSessionToken = None]_vars

\* C11 as amended: as claimed, except that outside the trust window the answer is
\* MFARequired only when the code was delivered; when the delivery fails the call is
\* answered with a server error, the challenge being stored all the same
C11_TrustedOrChallengeStored ==
  [][\A e \in DOMAIN users :
       ReachesMfaDecision(e) =>
         LET v == users'[e]
         IN IF TrustWindowValid(e)
            THEN /\ resp'.outcome = "LoginSuccess"
                 /\ resp'.token # None
                 /\ v.activeSessionToken = resp'.token
                 /\ v.mfaCode = users[e].mfaCode
                 /\ v.mfaExpiry = users[e].mfaExpiry
            ELSE /\ resp'.outcome \in {"MFARequired", "ServerError"}
                 /\ resp'.token = None
                 /\ v.mfaCode # None
                 /\ v.mfaExpiry = Some(now + 72 * 60 * 60 * 1000)
                 /\ v.activeSessionToken = None]_vars

\* C11 witness: a login after the trust window has run out has stored a new challenge
C11_Witness ==
  \E e \in DOMAIN users :
    /\ resp.op = "login" /\ resp.email = e
    /\ resp.outcome = "MFARequired"
    /\ users[e].lastMfaVerifiedAt # None
    /\ now > users[e].lastMfaVerifiedAt[1] + 72 * 60 * 60 * 1000
    /\ users[e].mfaCode # None
    /\ users[e].mfaExpiry = Some(now + 72 * 60 * 60 * 1000)
    /\ users[e].activeSessionToken = None

\* the step is a successful resetPassword of the account e
ResetStep(e) ==
  /\ resp'.op = "resetPassword"
  /\ resp'.outcome = "PasswordReset"
  /\ resp'.email = e

\* the last response is a successful resetPassword of the account e
JustReset(e) ==
  /\ resp.op = "resetPassword"
  /\ resp.outcome = "PasswordReset"
  /\ resp.email = e

C13_RightPasswordResetsLockout ==
  [][\A e \in DOMAIN users :
       (RightLoginStep(e) /\ ~users[e].permanentlyLocked /\ ~InsideTemporaryLock(e)) =>
         /\ users'[e].failedLoginAttempts = 0
         /\ users'[e].lockoutStage = 0]_vars

\* C14: on a stage-1 account with temporaryLockUntil set, a wrong-password login at any
\* now >= temporaryLockUntil, equality included, is answered InvalidCredentials with
\* remainingAttempts 2 and leaves failedLoginAttempts 1, temporaryLockUntil null and
\* lockoutStage 1
C14_SecondChanceAtExpiry ==
  [][\A e \in DOMAIN users :
       (/\ WrongLoginStep(e)
        /\ users[e].lockoutStage = 1
        /\ users[e].temporaryLockUntil # None
        /\ now >= users[e].temporaryLockUntil[1]) =>
         /\ resp'.outcome = "InvalidCredentials"
         /\ resp'.remainingAttempts = Some(2)
         /\ resp'.remainingMinutes = None
         /\ users'[e].failedLoginAttempts = 1
         /\ users'[e].temporaryLockUntil = None
         /\ users'[e].lockoutStage = 1
         /\ ~users'[e].permanentlyLocked]_vars

\* C14 witness: the lock set at time 0 ended at this very instant, and a wrong password
\* has been evaluated and counted as the first of the second chance
C14_Witness ==
  \E e \in DOMAIN users :
    /\ resp.op = "login" /\ resp.email = e
    /\ resp.outcome = "InvalidCredentials"
    /\ resp.remainingAttempts = Some(2)
    /\ ~Compare(resp.password[1], users[e].password)
    /\ users[e].lockoutStage = 1
    /\ users[e].failedLoginAttempts = 1
    /\ users[e].temporaryLockUntil = None
    /\ ticks = 1
    /\ now = 5 * 60 * 1000

\* C15: in every reachable state permanentlyLocked = true implies lockoutStage = 2
C15_PermanentImpliesStage2 ==
  \A e \in DOMAIN users :
    users[e].permanentlyLocked => users[e].lockoutStage = 2

\* C15 witness: a permanently locked account on which a later forgotPassword has stored
\* a reset token
C15_Witness ==
  \E e \in DOMAIN users :
    /\ users[e].permanentlyLocked
    /\ users[e].lockoutStage = 2
    /\ users[e].resetToken # None
    /\ resp.op = "forgotPassword"

\* C16: in every reachable state temporaryLockUntil is set only if lockoutStage = 1; it
\* becomes set only by the wrong password that moves the account from stage 0 to stage
\* 1; and the first login made at or after its expiry clears it and counts the failures
\* from zero (0 stored after a right password, 1 after a wrong one)
C16_LockUntilOnlyInStage1 ==
  /\ [](\A e \in DOMAIN users :
          users[e].temporaryLockUntil # None => users[e].lockoutStage = 1)
  /\ [][\A e \in DOMAIN users :
          /\ (users[e].temporaryLockUntil = None /\ users'[e].temporaryLockUntil # None) =>
               /\ WrongLoginStep(e)
               /\ users[e].lockoutStage = 0
               /\ users'[e].lockoutStage = 1
               /\ users'[e].temporaryLockUntil = Some(now + 5 * 60 * 1000)
          /\ (/\ LoginStep(e)
              /\ users[e].temporaryLockUntil # None
              /\ now >= users[e].temporaryLockUntil[1]) =>
               /\ users'[e].temporaryLockUntil = None
               /\ users'[e].failedLoginAttempts =
                    IF Compare(resp'.password[1], users[e].password) THEN 0 ELSE 1
          /\ (users[e].temporaryLockUntil # None /\ users'[e].temporaryLockUntil = None) =>
               \/ LoginStep(e) /\ now >= users[e].temporaryLockUntil[1]
               \/ ResetStep(e)]_vars

\* C16 witness: at the instant the lock set at time 0 ended, a login with the right
\* password on an unverified account has cleared temporaryLockUntil and the counter and
\* left the account in stage 1
C16_Witness ==
  \E e \in DOMAIN users :
    /\ resp.op = "login" /\ resp.email = e
    /\ resp.outcome = "EmailNotVerified"
    /\ users[e].temporaryLockUntil = None
    /\ users[e].failedLoginAttempts = 0
    /\ users[e].lockoutStage = 1
    /\ ticks = 1
    /\ now = 5 * 60 * 1000

\* the step is a verifyMfa request for the account e
VerifyMfaStep(e) == resp'.op = "verifyMfa" /\ resp'.email = e

\* C17: verifyMfa on an account whose activeSessionToken is set is answered
\* SessionAlreadyActive whatever code is submitted, returns no token and leaves the
\* record unchanged; so does the handler on the same record with any challenge
\* outstanding, the submitted code matching it or not
C17_VerifyMfaRefusedForActiveSession ==
  [][\A e \in DOMAIN users :
       users[e].activeSessionToken # None =>
         /\ VerifyMfaStep(e) =>
              /\ resp'.outcome = "SessionAlreadyActive"
              /\ resp'.token = None
              /\ users'[e] = users[e]
         /\ \A stored \in Codes, code \in Codes, userAgent \in UserAgents :
              LET u == [users[e] EXCEPT !.mfaCode = Some(stored),
                                        !.mfaExpiry = Some(now + 72 * 60 * 60 * 1000)]
                  r == VerifyMfaOn(u, code, userAgent, now)
              IN /\ r.out.outcome = "SessionAlreadyActive"
                 /\ r.out.token = None
                 /\ r.user = u]_vars

\* C17 witness: a verifyMfa on an account with an active session has been refused
C17_Witness ==
  \E e \in DOMAIN users :
    /\ resp.op = "verifyMfa" /\ resp.email = e
    /\ resp.outcome = "SessionAlreadyActive"
    /\ resp.token = None
    /\ users[e].activeSessionToken # None
    /\ users[e].lastMfaVerifiedAt # None

\* the fields of the challenge and of the session are the same before and after the step
ChallengeAndSessionUnchanged(e) ==
  /\ users'[e].mfaCode = users[e].mfaCode
  /\ users'[e].mfaExpiry = users[e].mfaExpiry
  /\ users'[e].lastMfaVerifiedAt = users[e].lastMfaVerifiedAt
  /\ users'[e].activeSessionToken = users[e].activeSessionToken
  /\ users'[e].activeDevice = users[e].activeDevice
  /\ users'[e].sessionCreatedAt = users[e].sessionCreatedAt

\* C18 as claimed: verifyMfa is answered InvalidCode when no code is outstanding or the
\* submitted code differs, Expired when the code matches and now > mfaExpiry, both
\* without a token and without a change of the challenge and the session; otherwise it
\* succeeds, clears mfaCode and mfaExpiry and sets lastMfaVerifiedAt = now
C18_VerifyMfaOutcomes ==
  [][\A e \in DOMAIN users :
       VerifyMfaStep(e) =>
         IF users[e].mfaCode = None \/ users[e].mfaCode # resp'.code
         THEN /\ resp'.outcome = "InvalidCode"
              /\ resp'.token = None
              /\ ChallengeAndSessionUnchanged(e)
         ELSE IF now > users[e].mfaExpiry[1]
         THEN /\ resp'.outcome = "Expired"
              /\ resp'.token = None
              /\ ChallengeAndSessionUnchanged(e)
         ELSE /\ resp'.outcome = "MfaVerified"
              /\ users'[e].mfaCode = None
              /\ users'[e].mfaExpiry = None
              /\ users'[e].lastMfaVerifiedAt = Some(now)]_vars

\* C18 as amended: the same on an account without an active session; with an active
\* session the call is answered SessionAlreadyActive before the code is looked at
C18_VerifyMfaOutcomesWithoutSession ==
  [][\A e \in DOMAIN users :
       VerifyMfaStep(e) =>
         IF users[e].activeSessionToken # None
         THEN /\ resp'.outcome = "SessionAlreadyActive"
              /\ resp'.token = None
              /\ ChallengeAndSessionUnchanged(e)
         ELSE IF users[e].mfaCode = None \/ users[e].mfaCode # resp'.code
         THEN /\ resp'.outcome = "InvalidCode"
              /\ resp'.token = None
              /\ ChallengeAndSessionUnchanged(e)
         ELSE IF now > users[e].mfaExpiry[1]
         THEN /\ resp'.outcome = "Expired"
              /\ resp'.token = None
              /\ ChallengeAndSessionUnchanged(e)
         ELSE /\ resp'.outcome = "MfaVerified"
              /\ users'[e].mfaCode = None
              /\ users'[e].mfaExpiry = None
              /\ users'[e].lastMfaVerifiedAt = Some(now)]_vars

\* C18 witness: the matching code submitted at the instant mfaExpiry itself has been
\* accepted
C18_Witness ==
  \E e \in DOMAIN users :
    /\ resp.op = "verifyMfa" /\ resp.email = e
    /\ resp.outcome = "MfaVerified"
    /\ users[e].mfaCode = None
    /\ users[e].mfaExpiry = None
    /\ users[e].lastMfaVerifiedAt = Some(now)
    /\ ticks = 1
    /\ now = 72 * 60 * 60 * 1000

\* C19: in every reachable state resetToken and resetTokenExpiry are both null or both
\* set; a successful resetPassword clears both, so that no account holds the token it
\* was made with, and a second resetPassword with the same token is answered
\* InvalidOrExpiredToken and changes nothing
C19_ResetTokenSingleUse ==
  /\ [](\A e \in DOMAIN users :
          users[e].resetToken = None <=> users[e].resetTokenExpiry = None)
  /\ [][\A e \in DOMAIN users :
          /\ ResetStep(e) =>
               /\ users[e].resetToken = resp'.code
               /\ users'[e].resetToken = None
               /\ users'[e].resetTokenExpiry = None
               /\ \A other \in DOMAIN users' : users'[other].resetToken # resp'.code
          /\ (JustReset(e) /\ resp'.op = "resetPassword" /\ resp'.code = resp.code) =>
               /\ resp'.outcome = "InvalidOrExpiredToken"
               /\ users' = users]_vars

\* C19 witness: with no time passed, the token of a successful reset has been submitted
\* again and refused (the reset is the one that cleared the MFA verification behind the
\* held session token)
C19_Witness ==
  \E e \in DOMAIN users :
    /\ resp.op = "resetPassword"
    /\ resp.outcome = "InvalidOrExpiredToken"
    /\ resp.code \in {Some(r) : r \in ResetTokens}
    /\ users[e].resetToken = None
    /\ users[e].resetTokenExpiry = None
    /\ users[e].lastMfaVerifiedAt = None
    /\ held # None
    /\ held[1].userId = e
    /\ ticks = 0

\* C20: forgotPassword stores a token that expires 15 minutes later; a resetPassword
\* with a token that no account holds, or that an account holds with resetTokenExpiry
\* passed (now >= resetTokenExpiry), is answered InvalidOrExpiredToken and leaves every
\* account record unchanged
C20_BadResetTokenChangesNothing ==
  [][/\ \A e \in DOMAIN users :
          (resp'.op = "forgotPassword" /\ resp'.email = e) =>
            /\ users'[e].resetToken # None
            /\ users'[e].resetTokenExpiry = Some(now + 15 * 60 * 1000)
     /\ (/\ resp'.op = "resetPassword"
         /\ \A e \in DOMAIN users :
              \/ users[e].resetToken # resp'.code
              \/ now >= users[e].resetTokenExpiry[1]) =>
          /\ resp'.outcome = "InvalidOrExpiredToken"
          /\ users' = users]_vars

\* C20 witness: the token an account holds has been submitted at the instant of its
\* resetTokenExpiry, 15 minutes after it was issued at time 0, and refused
C20_Witness ==
  \E e \in DOMAIN users :
    /\ resp.op = "resetPassword"
    /\ resp.outcome = "InvalidOrExpiredToken"
    /\ users[e].resetToken = resp.code
    /\ users[e].resetTokenExpiry = Some(now)
    /\ now = 15 * 60 * 1000

\* C21: forgotPassword gives an email that matches an account the response it gives an
\* email that matches none, which is the generic one
C21_ForgotPasswordAlwaysGeneric ==
  [][resp'.op = "forgotPassword" => resp'.outcome = "Generic"]_vars

\* the response of a login for an email that matches no account
UnknownEmailResponse(email, password) ==
  [Response("login", email, "InvalidCredentials") EXCEPT !.password = Some(password)]

\* C22: a login for an email that matches no account is answered InvalidCredentials,
\* and a wrong password on an existing account is answered with a response of the same
\* shape
C22_UnknownEmailSameShape ==
  [][\A e \in Emails :
       /\ (LoginStep(e) /\ e \notin DOMAIN users) =>
            resp' = UnknownEmailResponse(e, resp'.password[1])
       /\ (e \in DOMAIN users /\ WrongLoginStep(e)) =>
            resp' = UnknownEmailResponse(e, resp'.password[1])]_vars

\* the step is a logout request with a bearer token of the account e
LogoutStep(e) == resp'.op = "logout" /\ resp'.email = e

\* the session fields of the record are null
NoSession(u) ==
  /\ u.activeSessionToken = None
  /\ u.activeDevice = None
  /\ u.sessionCreatedAt = None

\* C23 as claimed: a logout for an account that has no active session returns success
\* and leaves activeSessionToken, activeDevice and sessionCreatedAt null
C23_LogoutIdempotent ==
  [][\A e \in DOMAIN users :
       (LogoutStep(e) /\ users[e].activeSessionToken = None) =>
         /\ resp'.outcome = "LoggedOut"
         /\ NoSession(users'[e])]_vars

\* C23 as amended: a logout succeeds exactly when its bearer token is signed, unexpired
\* and the active session of its account, and then leaves the three session fields
\* null; any other logout, like a second one with the same token right after the
\* first, is refused by the middleware (SessionInvalid for a signed and unexpired
\* token) and changes nothing
C23_LogoutNeedsActiveSession ==
  [][\A e \in DOMAIN users :
       LogoutStep(e) =>
         LET token == resp'.presented[1]
         IN IF /\ users[e].activeSessionToken = Some(token)
               /\ token.sig = "JWT_SECRET"
               /\ (now \div 1000) < token.exp
            THEN /\ resp'.outcome = "LoggedOut"
                 /\ NoSession(users'[e])
                 /\ users' = [users EXCEPT ![e] = users'[e]]
            ELSE /\ resp'.outcome =
                      IF token.sig = "JWT_SECRET" /\ (now \div 1000) < token.exp
                      THEN "SessionInvalid"
                      ELSE "InvalidToken"
                 /\ users' = users]_vars

\* C23 witness: a logout with a signed and unexpired token that a login returned has
\* been refused because the account has no session any more
C23_Witness ==
  /\ resp.op = "logout"
  /\ resp.outcome = "SessionInvalid"
  /\ resp.presented[1].sig = "JWT_SECRET"
  /\ (now \div 1000) < resp.presented[1].exp
  /\ NoSession(users[resp.email])
  /\ users[resp.email].lastMfaVerifiedAt # None
  /\ resp.presented[1].iat # users[resp.email].lastMfaVerifiedAt[1] \div 1000

\* the calls c1 and c2 have both answered, and each had read the account before the
\* other answered
Overlapping(c1, c2) ==
  /\ c1 # c2
  /\ calls[c1].email = calls[c2].email
  /\ calls[c1].done /\ calls[c2].done
  /\ c1 \notin calls[c2].after
  /\ c2 \notin calls[c1].after

\* C24: of two overlapping login or verifyMfa calls on an account that has no active
\* session, at most one returns a token
C24_AtMostOneAcquiresSession ==
  \A c1, c2 \in DOMAIN calls :
    (/\ Overlapping(c1, c2)
     /\ calls[c1].doc.activeSessionToken = None
     /\ calls[c2].doc.activeSessionToken = None
     /\ calls[c1].out.token # None) =>
      calls[c2].out.token = None

\* the call is a login with a wrong password that has been compared against the hash
EvaluatedFailure(c) ==
  /\ calls[c].op = "login"
  /\ calls[c].done
  /\ ~Compare(calls[c].password[1], calls[c].doc.password)
  /\ ~IsPermanentlyLocked(calls[c].doc)
  /\ ~IsTemporarilyLocked(calls[c].doc, now)

\* C25: when the only calls made on an account, whose counter was 0, are logins with a
\* wrong password, the stored failedLoginAttempts is the number of those that have been
\* compared against the hash
C25_EveryFailureCountedOnce ==
  \A e \in DOMAIN users :
    (\A c \in DOMAIN calls :
       /\ calls[c].op = "login"
       /\ calls[c].email = e
       /\ ~Compare(calls[c].password[1], calls[c].doc.password)) =>
      users[e].failedLoginAttempts =
        Cardinality({c \in DOMAIN calls : EvaluatedFailure(c)})

\* C26: of two overlapping verifyMfa calls that submit the same code for the same
\* account, at most one succeeds and returns a token
C26_CodeConsumedOnce ==
  \A c1, c2 \in DOMAIN calls :
    (/\ Overlapping(c1, c2)
     /\ calls[c1].op = "verifyMfa" /\ calls[c2].op = "verifyMfa"
     /\ calls[c1].code = calls[c2].code
     /\ calls[c1].out.outcome = "MfaVerified") =>
      /\ calls[c2].out.outcome # "MfaVerified"
      /\ calls[c2].out.token = None

\* C27: a login whose MFA mail fails and a forgotPassword whose reset mail fails leave
\* the record that the same request leaves when the mail is delivered: the code and
\* mfaExpiry = now + 72h, respectively the token and resetTokenExpiry = now + 15
\* minutes, are stored, and no other field differs
C27_NotifierFailureKeepsRecord ==
  [][\A e \in DOMAIN users :
       /\ (LoginStep(e) /\ resp'.outcome = "ServerError") =>
            /\ users'[e].mfaCode # None
            /\ users'[e].mfaExpiry = Some(now + 72 * 60 * 60 * 1000)
            /\ \E userAgent \in UserAgents :
                 LET delivered == LoginOn(users[e], resp'.password[1], userAgent,
                                          users'[e].mfaCode[1], TRUE, now)
                 IN /\ delivered.out.outcome = "MFARequired"
                    /\ delivered.user = users'[e]
       /\ (resp'.op = "forgotPassword" /\ resp'.email = e) =>
            /\ users'[e].resetToken # None
            /\ users'[e].resetTokenExpiry = Some(now + 15 * 60 * 1000)
            /\ users'[e] = [users[e] EXCEPT !.resetToken = users'[e].resetToken,
                                            !.resetTokenExpiry = users'[e].resetTokenExpiry]]_vars

\* C27 witness: the MFA mail of a login has failed and the challenge is stored
C27_Witness ==
  \E e \in DOMAIN users :
    /\ resp.op = "login" /\ resp.email = e
    /\ resp.outcome = "ServerError"
    /\ users[e].mfaCode # None
    /\ users[e].mfaExpiry = Some(now + 72 * 60 * 60 * 1000)
    /\ users[e].activeSessionToken = None

\* C28 as claimed: a login with the right password on an unverified account is answered
\* EmailNotVerified, and an unverified account never has a challenge or a session
C28_UnverifiedAlwaysEmailNotVerified ==
  /\ [](\A e \in DOMAIN users :
          ~users[e].isVerified =>
            /\ users[e].mfaCode = None
            /\ users[e].mfaExpiry = None
            /\ users[e].activeSessionToken = None)
  /\ [][\A e \in DOMAIN users :
          (RightLoginStep(e) /\ ~users[e].isVerified) =>
            resp'.outcome = "EmailNotVerified"]_vars

\* C28 as amended: an unverified account never has a challenge or a session, and no
\* login or verifyMfa for it returns a token; a login with the right password is
\* answered EmailNotVerified unless the account is permanently locked or inside an
\* unexpired temporary lock, where it is answered with the lock
C28_UnverifiedGetsNoChallenge ==
  /\ [](\A e \in DOMAIN users :
          ~users[e].isVerified =>
            /\ users[e].mfaCode = None
            /\ users[e].mfaExpiry = None
            /\ users[e].activeSessionToken = None)
  /\ [][\A e \in DOMAIN users :
          ~users[e].isVerified =>
            /\ (LoginStep(e) \/ VerifyMfaStep(e)) => resp'.token = None
            /\ RightLoginStep(e) =>
                 resp'.outcome =
                   IF users[e].permanentlyLocked THEN "RejectedPermanentLock"
                   ELSE IF InsideTemporaryLock(e) THEN "RejectedTemporaryLock"
                   ELSE "EmailNotVerified"]_vars

\* C28 witness: a login with the right password on an unverified account has been
\* answered EmailNotVerified
C28_Witness ==
  \E e \in DOMAIN users :
    /\ resp.op = "login" /\ resp.email = e
    /\ resp.outcome = "EmailNotVerified"
    /\ Compare(resp.password[1], users[e].password)
    /\ ~users[e].isVerified
    /\ users[e].mfaCode = None
    /\ users[e].mfaExpiry = None
    /\ users[e].activeSessionToken = None

(* ------------------------------------------------------------------ *)
(* The challenge fields                                                *)
(* ------------------------------------------------------------------ *)

\* C29: in every reachable state mfaCode and mfaExpiry of every account are both null
\* or both set
C29_ChallengeFieldsTogether ==
  \A e \in DOMAIN users :
    users[e].mfaCode = None <=> users[e].mfaExpiry = None

(* ------------------------------------------------------------------ *)
(* Registration                                                        *)
(* ------------------------------------------------------------------ *)

\* the step is a register request for the email e
RegisterStep(e) == resp'.op = "register" /\ resp'.email = e

\* the record of a fresh account: unverified, at stage 0 with no failure counted, not
\* locked, with no challenge and no session
FreshAccount(u) ==
  /\ ~u.isVerified
  /\ u.lockoutStage = 0
  /\ u.failedLoginAttempts = 0
  /\ ~u.permanentlyLocked
  /\ u.temporaryLockUntil = None
  /\ u.mfaCode = None
  /\ u.mfaExpiry = None
  /\ NoSession(u)

\* C30: register for an email that has an account answers DuplicateEmail and leaves
\* the store unchanged; for any other email it adds exactly one account, which is
\* fresh, and leaves the other accounts as they were, whether or not the
\* verification mail was delivered
C30_RegisterCreatesOneFreshAccount ==
  [][\A e \in Emails :
       RegisterStep(e) =>
         IF Exists(e)
         THEN /\ resp'.outcome = "DuplicateEmail"
              /\ users' = users
         ELSE /\ resp'.outcome = "Registered"
              /\ DOMAIN users' = DOMAIN users \cup {e}
              /\ FreshAccount(users'[e])
              /\ \A o \in DOMAIN users : users'[o] = users[o]]_vars

\* C30 witness: a registration has created a fresh account although no verification
\* mail for it was delivered
C30_Witness ==
  \E e \in DOMAIN users :
    /\ resp.op = "register" /\ resp.email = e
    /\ resp.outcome = "Registered"
    /\ FreshAccount(users[e])
    /\ \A token \in verifyMail : token.userId # e

(* ------------------------------------------------------------------ *)
(* Locks and sessions                                                  *)
(* ------------------------------------------------------------------ *)

\* the account e is permanently locked or inside an unexpired temporary lock
Locked(e) == users[e].permanentlyLocked \/ InsideTemporaryLock(e)

\* C31: no login and no verifyMfa returns a session token for an account that is
\* permanently locked or inside an unexpired temporary lock when the request is made
C31_NoTokenWhileLocked ==
  [][\A e \in DOMAIN users :
       (ReturnsToken(resp') /\ resp'.email = e) => ~Locked(e)]_vars

\* some request the API accepts in this state leaves the account e without a session
CanEndSession(e) ==
  ENABLED (Next /\ e \in DOMAIN users' /\ users'[e].activeSessionToken = None)

\* C32: in every reachable state in which an account has an active session, the token
\* of that session expired or not, some operation ends the session
C32_SessionCanBeEnded ==
  \A e \in DOMAIN users :
    users[e].activeSessionToken # None => CanEndSession(e)

\* C33: a verifyMfa that directly follows a successful resetPassword of the account
\* returns no session token: a code issued before the reset is not redeemable
C33_OldCodeDeadAfterReset ==
  [][\A e \in DOMAIN users :
       (JustReset(e) /\ VerifyMfaStep(e)) => resp'.token = None]_vars

\* the session fields of a record
SessionFields(u) == <<u.activeSessionToken, u.activeDevice, u.sessionCreatedAt>>

\* the step answers a request about the account e that neither acquires a session nor
\* is a logout: a login that returns no token, a forgotPassword or a resetPassword
NoSessionRequestStep(e) ==
  /\ resp'.email = e
  /\ \/ resp'.op = "login" /\ resp'.token = None
     \/ resp'.op = "forgotPassword"
     \/ resp'.op = "resetPassword"

\* C34: the session fields of an account change only in a login or verifyMfa step that
\* returns a token and in a successful logout; a login that returns no token, a
\* forgotPassword and a resetPassword leave them as they were, so every bearer token of
\* the account is answered by validate after the step as before it; and a wrong
\* password on an unlocked account that has an active session is still counted
C34_SessionFieldsFrame ==
  [][\A e \in DOMAIN users \cap DOMAIN users' :
       /\ SessionFields(users'[e]) # SessionFields(users[e]) =>
            /\ resp'.email = e
            /\ \/ ReturnsToken(resp')
               \/ resp'.op = "logout" /\ resp'.outcome = "LoggedOut"
       /\ NoSessionRequestStep(e) =>
            /\ SessionFields(users'[e]) = SessionFields(users[e])
            /\ \A token \in Bearers :
                 token.userId = e =>
                   AuthenticateJWT(token, now)' = AuthenticateJWT(token, now)
       /\ (WrongLoginStep(e) /\ ~Locked(e) /\ HasActiveSession(users[e])) =>
            users'[e].failedLoginAttempts =
              SecondChance(users[e], now).failedLoginAttempts + 1]_vars

\* C34 witness: the third wrong password has locked an account whose active session
\* still passes validate
C34_Witness ==
  \E e \in DOMAIN users :
    /\ resp.op = "login" /\ resp.email = e
    /\ resp.outcome = "RejectedTemporaryLock"
    /\ users[e].failedLoginAttempts = 3
    /\ InsideTemporaryLock(e)
    /\ users[e].activeSessionToken # None
    /\ AuthenticateJWT(users[e].activeSessionToken[1], now) = "Authorized"

(* ------------------------------------------------------------------ *)
(* The lockout counters                                                *)
(* ------------------------------------------------------------------ *)

AdminConfiguredFor(e) == env.ADMIN_EMAIL = Some(e) /\ env.ADMIN_PASSWORD # None

\* C37: a login for an email that has an account creates no account; a login for an
\* email that has none leaves the store unchanged and returns no token, unless the
\* email is the configured ADMIN_EMAIL with an ADMIN_PASSWORD: then it creates one
\* account, verified, with role admin and the hash of ADMIN_PASSWORD, and answers as for
\* any fresh verified account: a wrong password is counted once and answered
\* InvalidCredentials with 2 attempts remaining, the right one stores a challenge and
\* returns no token
C37_LoginCreatesOnlyConfiguredAdmin ==
  [][\A e \in Emails :
       LoginStep(e) =>
         IF Exists(e)
         THEN DOMAIN users' = DOMAIN users
         ELSE IF ~AdminConfiguredFor(e)
         THEN /\ users' = users
              /\ resp'.token = None
              /\ resp'.outcome \in {"InvalidCredentials", "AdminNotConfigured"}
              /\ resp'.outcome = "AdminNotConfigured" <=> env.ADMIN_EMAIL = Some(e)
         ELSE /\ DOMAIN users' = DOMAIN users \cup {e}
              /\ \A o \in DOMAIN users : users'[o] = users[o]
              /\ users'[e].role = "admin"
              /\ users'[e].isVerified
              /\ Compare(env.ADMIN_PASSWORD[1], users'[e].password)
              /\ NoSession(users'[e])
              /\ resp'.token = None
              /\ IF Compare(resp'.password[1], users'[e].password)
                 THEN /\ resp'.outcome \in {"MFARequired", "ServerError"}
                      /\ users'[e].mfaCode # None
                      /\ users'[e].mfaExpiry = Some(now + MFA_WINDOW_MS)
                      /\ users'[e].failedLoginAttempts = 0
                 ELSE /\ resp'.outcome = "InvalidCredentials"
                      /\ resp'.remainingAttempts = Some(2)
                      /\ users'[e].failedLoginAttempts = 1
                      /\ users'[e].lockoutStage = 0
                      /\ users'[e].mfaCode = None]_vars

\* C37 witness: a login has created the admin account and has been answered with an
\* MFA challenge
C37_Witness ==
  \E e \in DOMAIN users :
    /\ AdminConfiguredFor(e)
    /\ resp.op = "login" /\ resp.email = e
    /\ resp.outcome = "MFARequired"
    /\ users[e].role = "admin"
    /\ users[e].isVerified
    /\ users[e].mfaCode # None

====
